---- MODULE Spec2Model ----
(***************************************************************************)
(* Model of the servicelib-golang logger package (ECS-shaped JSON logger): *)
(* the Logger with its per-level methods, the io.Writer method, the        *)
(* request-scoped logger, and the filter / lazy-format / marshal / send    *)
(* pipeline of Logger.log; of the cassandra package's connect observer,    *)
(* which logs through that Logger; and of the middleware package's         *)
(* Prometheus instrumentation of an http.Handler.                          *)
(*                                                                         *)
(* A Go string is a sequence of tokens whose concatenation is the string.  *)
(* Every string an operation is given is cut into single characters.  The  *)
(* literals of the code and of fmt ("DEBUG", "%!(NOVERB)", the text of a   *)
(* diagnostic between its verbs) are one token each: they hold no verb and *)
(* no character that JSON or strconv escapes, so every conversion copies   *)
(* them as they are.  The token "<FF>" stands for a byte that is           *)
(* not valid UTF-8, "<FFFD>" for the replacement character U+FFFD and      *)
(* "<RFC3339>" for a formatted time.                                       *)
(***************************************************************************)
EXTENDS Integers, Sequences, FiniteSets, TLC

VARIABLES
    logger,     \* <<>> before construction, <<l>> once NewLogger succeeded
    sink,       \* the io.Writer: the sequence of writes it received
    request,    \* <<>> or <<r>>: the request the current scope was derived from
    rsLog,      \* <<>> or <<s>>: the RequestScopedLogger derived from request
    last,       \* what the last operation was given, did and returned
    calls,      \* number of operations performed on the constructed logger
    tally,      \* history: how many calls of which kind were made
    web,        \* <<>>, or an instrumented http server: its requests and metrics
    flows       \* <<>>, or the flows that call one Logger concurrently

vars == <<logger, sink, request, rsLog, last, calls, tally, web, flows>>

----------------------------------------------------------------------------
(* Bounds *)

MaxCalls == 2

----------------------------------------------------------------------------
(* Levels *)

DEBUG == 0
INFO == 1
WARNING == 2
ERROR == 3
FATAL == 4

\* validLevel with a range test that forgets the upper end
validLevel_noUpperBound(level) == level >= DEBUG

validLevel(level) == level \in {DEBUG, INFO, WARNING, ERROR, FATAL}

LevelString(level) ==
    CASE level = DEBUG   -> <<"DEBUG">>
      [] level = INFO    -> <<"INFO">>
      [] level = WARNING -> <<"WARNING">>
      [] level = ERROR   -> <<"ERROR">>
      [] level = FATAL   -> <<"FATAL">>
      [] OTHER           -> <<>>

----------------------------------------------------------------------------
(* Strings *)

\* strings.TrimSuffix(s, "\n")
TrimSuffix(s) ==
    IF Len(s) > 0 /\ s[Len(s)] = "\n" THEN SubSeq(s, 1, Len(s) - 1) ELSE s

\* index of the first / last occurrence of c in s, 0 when there is none
RECURSIVE IndexByte(_, _)
IndexByte(s, c) ==
    IF s = <<>> THEN 0
    ELSE IF Head(s) = c THEN 1
    ELSE LET i == IndexByte(Tail(s), c) IN IF i = 0 THEN 0 ELSE i + 1

RECURSIVE LastIndexByte(_, _)
LastIndexByte(s, c) ==
    IF s = <<>> THEN 0
    ELSE IF s[Len(s)] = c THEN Len(s)
    ELSE LastIndexByte(SubSeq(s, 1, Len(s) - 1), c)

Digit(d) == CASE d = 0 -> "0" [] d = 1 -> "1" [] d = 2 -> "2" [] d = 3 -> "3"
              [] d = 4 -> "4" [] d = 5 -> "5" [] d = 6 -> "6" [] d = 7 -> "7"
              [] d = 8 -> "8" [] d = 9 -> "9"

RECURSIVE Digits(_)
Digits(n) == IF n < 10 THEN <<Digit(n)>> ELSE Digits(n \div 10) \o <<Digit(n % 10)>>

\* an integer in base 10, as the verb %d prints it
Decimal(n) == IF n < 0 THEN <<"-">> \o Digits(0 - n) ELSE Digits(n)

\* strconv.Quote, which the verb %q applies to a string
QuoteChar(c) ==
    CASE c = "\"" -> <<"\\", "\"">>
      [] c = "\\" -> <<"\\", "\\">>
      [] c = "\n" -> <<"\\", "n">>
      [] c = "<FF>" -> <<"\\", "x", "f", "f">>
      [] OTHER -> <<c>>

RECURSIVE QuoteBody(_)
QuoteBody(s) == IF s = <<>> THEN <<>> ELSE QuoteChar(Head(s)) \o QuoteBody(Tail(s))

Quote(s) == <<"\"">> \o QuoteBody(s) \o <<"\"">>

----------------------------------------------------------------------------
(* fmt.Sprintf.  An argument is [t |-> "string", s |-> chars, n |-> 0] or  *)
(* [t |-> "int", s |-> <<>>, n |-> value] (a logger.Level).  The verbs the *)
(* package and the inputs below use are %s, %q, %d and %%; every other     *)
(* character after % is a bad verb.  Flags, widths and argument indexes    *)
(* (the characters "+-# 0123456789.*[") are not part of any format drawn.  *)

StrArg(s) == [t |-> "string", s |-> s, n |-> 0]
IntArg(n) == [t |-> "int", s |-> <<>>, n |-> n]

TypeName(a) ==
    IF a.t = "string" THEN <<"string">> ELSE <<"logger.Level">>

\* the operand printed with %v
PlainArg(a) == IF a.t = "string" THEN a.s ELSE Decimal(a.n)

\* utf8.DecodeRune on one character: an invalid byte decodes to U+FFFD
DecodeRune(c) == IF c = "<FF>" THEN "<FFFD>" ELSE c

badVerb(c, a) ==
    <<"%!", DecodeRune(c), "(">> \o TypeName(a) \o <<"=">> \o PlainArg(a) \o <<")">>

missingArg(c) ==
    <<"%!", DecodeRune(c), "(MISSING)">>

noVerbString == <<"%!(NOVERB)">>

printArg(a, c) ==
    IF a.t = "string"
    THEN CASE c = "s" -> a.s
           [] c = "q" -> Quote(a.s)
           [] OTHER   -> badVerb(c, a)
    ELSE CASE c = "d" -> Decimal(a.n)
           [] OTHER   -> badVerb(c, a)

RECURSIVE extraArgs(_, _)
extraArgs(a, first) ==
    IF a = <<>> THEN <<>>
    ELSE (IF first THEN <<>> ELSE <<", ">>)
         \o TypeName(Head(a)) \o <<"=">> \o PlainArg(Head(a))
         \o extraArgs(Tail(a), FALSE)

extraString(a) ==
    IF a = <<>> THEN <<>>
    ELSE <<"%!(EXTRA ">> \o extraArgs(a, TRUE) \o <<")">>

RECURSIVE doPrintf(_, _)
doPrintf(format, a) ==
    IF format = <<>> THEN extraString(a)
    ELSE IF Head(format) # "%" THEN <<Head(format)>> \o doPrintf(Tail(format), a)
    ELSE IF Len(format) = 1 THEN noVerbString \o extraString(a)
    ELSE LET c == format[2]
             rest == SubSeq(format, 3, Len(format))
         IN IF c = "%" THEN <<"%">> \o doPrintf(rest, a)
            ELSE IF a = <<>> THEN missingArg(c) \o doPrintf(rest, a)
            ELSE printArg(Head(a), c) \o doPrintf(rest, Tail(a))

Sprintf(format, v) == doPrintf(format, v)

----------------------------------------------------------------------------
(* encoding/json.  A serialized document is modelled by its structure:     *)
(* objs is the set of JSON objects present besides the top-level one, strs *)
(* maps the path of every string member present to the characters written  *)
(* between its quotes, and nums maps the path of every number member       *)
(* present to its digits.                                                  *)

Nil == <<>>                     \* a nil pointer; <<x>> is a pointer to x
Ptr(x) == <<x>>

\* the escape json.Marshal writes for one character of a string
EncodeChar(c) ==
    CASE c = "\"" -> <<"\\", "\"">>
      [] c = "\\" -> <<"\\", "\\">>
      [] c = "\n" -> <<"\\", "n">>
      [] c = "<FF>" -> <<"\\", "u", "f", "f", "f", "d">>
      [] OTHER -> <<c>>

RECURSIVE EncodeString(_)
EncodeString(s) ==
    IF s = <<>> THEN <<>> ELSE EncodeChar(Head(s)) \o EncodeString(Tail(s))

\* json.Unmarshal of the characters between the quotes of a string literal:
\* [ok |-> FALSE] when they are no valid JSON string
RECURSIVE Unquote(_)
Unquote(e) ==
    IF e = <<>> THEN [ok |-> TRUE, s |-> <<>>]
    ELSE IF Head(e) \in {"\"", "\n"} THEN [ok |-> FALSE, s |-> <<>>]
    ELSE IF Head(e) # "\\"
         THEN LET r == Unquote(Tail(e))
              IN [ok |-> r.ok, s |-> <<DecodeRune(Head(e))>> \o r.s]
    ELSE IF Len(e) >= 2 /\ e[2] \in {"\"", "\\", "n"}
         THEN LET r == Unquote(SubSeq(e, 3, Len(e)))
                  c == IF e[2] = "n" THEN "\n" ELSE e[2]
              IN [ok |-> r.ok, s |-> <<c>> \o r.s]
    ELSE IF Len(e) >= 6 /\ SubSeq(e, 2, 6) = <<"u", "f", "f", "f", "d">>
         THEN LET r == Unquote(SubSeq(e, 7, Len(e)))
              IN [ok |-> r.ok, s |-> <<"<FFFD>">> \o r.s]
    ELSE [ok |-> FALSE, s |-> <<>>]

StringPaths == {"@timestamp", "message", "client.ip", "client.port", "log.level",
                "network.forwarded_ip", "service.name", "service.type", "trace.id"}

\* the struct tags of LogMessage and its blocks: which members are written
Present(m, p) ==
    CASE p = "@timestamp" -> TRUE
      [] p = "message" -> TRUE
      [] p = "client.ip" -> m.Client # Nil /\ m.Client[1].IP # <<>>
      [] p = "client.port" -> m.Client # Nil /\ m.Client[1].Port # <<>>
      [] p = "client.bytes" -> m.Client # Nil /\ m.Client[1].Bytes # 0
      [] p = "log.level" -> TRUE
      [] p = "network.forwarded_ip" -> m.Network # Nil /\ m.Network[1].ForwardedIP # <<>>
      [] p = "service.name" -> m.Service.Name # <<>>
      [] p = "service.type" -> m.Service.Type # <<>>
      [] p = "trace.id" -> m.Trace # Nil /\ m.Trace[1].ID # <<>>

Member(m, p) ==
    CASE p = "@timestamp" -> m.Timestamp
      [] p = "message" -> m.Message
      [] p = "client.ip" -> m.Client[1].IP
      [] p = "client.port" -> m.Client[1].Port
      [] p = "log.level" -> m.Log.Level
      [] p = "network.forwarded_ip" -> m.Network[1].ForwardedIP
      [] p = "service.name" -> m.Service.Name
      [] p = "service.type" -> m.Service.Type
      [] p = "trace.id" -> m.Trace[1].ID

\* json.Marshal(message).  No member of LogMessage is of a type the encoder
\* rejects, so err is always nil.
Marshal(m) ==
    [err |-> FALSE,
     str |-> [objs |-> {"log", "service"}
                       \cup (IF m.Client # Nil THEN {"client"} ELSE {})
                       \cup (IF m.Network # Nil THEN {"network"} ELSE {})
                       \cup (IF m.Trace # Nil THEN {"trace"} ELSE {}),
              strs |-> [p \in {q \in StringPaths : Present(m, q)}
                            |-> EncodeString(Member(m, p))],
              nums |-> [p \in {q \in {"client.bytes"} : Present(m, q)}
                            |-> Decimal(m.Client[1].Bytes)]]]

DigitValue(c) == CHOOSE d \in 0..9 : Digit(d) = c

RECURSIVE ParseDecimal(_)
ParseDecimal(ds) ==
    IF ds = <<>> THEN 0
    ELSE 10 * ParseDecimal(SubSeq(ds, 1, Len(ds) - 1)) + DigitValue(ds[Len(ds)])

\* json.Unmarshal(line, &msg), as the package's tests read a line back:
\* a member that is absent leaves the zero value, a block that is absent
\* leaves a nil pointer
UnmarshalOK(line) ==
    \A p \in DOMAIN line.strs : Unquote(line.strs[p]).ok

Unmarshal(line) ==
    LET str(p) == IF p \in DOMAIN line.strs THEN Unquote(line.strs[p]).s ELSE <<>>
        num(p) == IF p \in DOMAIN line.nums THEN ParseDecimal(line.nums[p]) ELSE 0
    IN [Timestamp |-> str("@timestamp"),
        Message   |-> str("message"),
        Client    |-> IF "client" \in line.objs
                      THEN Ptr([Bytes |-> num("client.bytes"), IP |-> str("client.ip"),
                                Port |-> str("client.port")])
                      ELSE Nil,
        Log       |-> [Level |-> str("log.level")],
        Network   |-> IF "network" \in line.objs
                      THEN Ptr([ForwardedIP |-> str("network.forwarded_ip")])
                      ELSE Nil,
        Service   |-> [Name |-> str("service.name"), Type |-> str("service.type")],
        Trace     |-> IF "trace" \in line.objs
                      THEN Ptr([ID |-> str("trace.id")])
                      ELSE Nil]

----------------------------------------------------------------------------
(* net.SplitHostPort *)

SplitHostPort(hostport) ==
    LET n == Len(hostport)
        i == LastIndexByte(hostport, ":")
        fail == [host |-> <<>>, port |-> <<>>, err |-> TRUE]
    IN IF i = 0 THEN fail
       ELSE IF hostport[1] = "["
       THEN LET end == IndexByte(hostport, "]")
            IN IF end = 0 \/ end + 1 # i THEN fail
               ELSE IF IndexByte(SubSeq(hostport, 2, n), "[") # 0 THEN fail
               ELSE IF IndexByte(SubSeq(hostport, end + 1, n), "]") # 0 THEN fail
               ELSE [host |-> SubSeq(hostport, 2, end - 1),
                     port |-> SubSeq(hostport, i + 1, n), err |-> FALSE]
       ELSE IF IndexByte(SubSeq(hostport, 1, i - 1), ":") # 0 THEN fail
       ELSE IF IndexByte(hostport, "[") # 0 \/ IndexByte(hostport, "]") # 0 THEN fail
       ELSE [host |-> SubSeq(hostport, 1, i - 1),
             port |-> SubSeq(hostport, i + 1, n), err |-> FALSE]

----------------------------------------------------------------------------
(* Logger *)

\* time.Now().Format(time.RFC3339): the clock reading, which no operation of
\* the package depends on, kept as one token (none of its characters is one
\* that JSON escapes)
Timestamp == <<"<RFC3339>">>

\* the ERROR diagnostic of Logger.log for a level that is not one of the five
InvalidLevelFormat ==
    <<"Invalid log level specified (", "%", "d", "); This is a bug!">>

\* the ERROR diagnostic of Logger.Request for an address that does not parse
UnableToParseFormat == <<"Unable to parse ", "%", "q", " as IP:port">>

\* basicLogMessage whose closure takes the format for the message
basicLogMessage_unexpanded(l, level, format, v) ==
    [Timestamp |-> Timestamp,
     Message   |-> format,
     Client    |-> Nil,
     Log       |-> [Level |-> LevelString(level)],
     Network   |-> Nil,
     Service   |-> [Name |-> l.serviceName, Type |-> <<>>],
     Trace     |-> Nil]

\* what the closure that basicLogMessage returns yields when it is invoked
basicLogMessage(l, level, format, v) ==
    [Timestamp |-> Timestamp,
     Message   |-> Sprintf(format, v),
     Client    |-> Nil,
     Log       |-> [Level |-> LevelString(level)],
     Network   |-> Nil,
     Service   |-> [Name |-> l.serviceName, Type |-> <<>>],
     Trace     |-> Nil]

\* send that writes the line and then, in a Write of its own, the newline
send_newlineApart(s) ==
    <<[line |-> s, nl |-> ""],
      [line |-> [objs |-> {}, strs |-> <<>>, nums |-> <<>>], nl |-> "\n"]>>

\* fmt.Fprintln(l.writer, s): one Write of the line and its newline
send(s) == <<[line |-> s, nl |-> "\n"]>>

\* the verb %v on a pointer that is a field of a struct: <nil>, or the
\* address it holds (one token, whatever the address)
PointerString(p) == IF p = Nil THEN <<"<nil>">> ELSE <<"<0xADDR>">>

\* the verb %v on a LogMessage: its fields in the order they are declared,
\* Timestamp Message Client Log Network Service Trace
LogMessageString(m) ==
    <<"{">> \o m.Timestamp \o <<" ">> \o m.Message
    \o <<" ">> \o PointerString(m.Client)
    \o <<" ", "{">> \o m.Log.Level \o <<"}">>
    \o <<" ">> \o PointerString(m.Network)
    \o <<" ", "{">> \o m.Service.Name \o <<" ">> \o m.Service.Type \o <<"}">>
    \o <<" ">> \o PointerString(m.Trace) \o <<"}">>

\* the verb %s on the error json.Marshal returned: its text, one token
MarshalErrorText == <<"<err.Error()>">>

\* the hand-built line of Logger.log for a message json.Marshal rejected:
\* fmt.Sprintf writes the three operands as they are, without JSON escapes
fallbackLine(l, message) ==
    [objs |-> {"service"},
     strs |-> [p \in {"message", "service.name"} |->
                 IF p = "message"
                 THEN <<"Error serializing log message: ">> \o LogMessageString(message)
                      \o <<" (">> \o MarshalErrorText \o <<")">>
                 ELSE l.serviceName],
     nums |-> <<>>]

\* Logger.log(level, msg).  msg is the LogMessage the closure yields when it
\* is invoked.  The result: out, the writes made to l.writer in order; evals,
\* how many times a message closure was invoked; depth, how deep log nested.
RECURSIVE log(_, _, _)

Error(l, format, v) == log(l, ERROR, basicLogMessage(l, ERROR, format, v))

\* Logger.log that reports a level above FATAL at a tenth of that level,
\* which need not be one of the five either
log_diagnosticAtScaledLevel(l, level, msg) ==
    LET diag == IF ~validLevel(level)
                THEN log(l, IF level > FATAL THEN level \div 10 ELSE ERROR,
                         basicLogMessage(l, ERROR, InvalidLevelFormat, <<IntArg(level)>>))
                ELSE [out |-> <<>>, evals |-> 0, depth |-> 0]
        lvl == IF ~validLevel(level) THEN ERROR ELSE level
    IN IF lvl < l.logLevel
       THEN [out |-> diag.out, evals |-> diag.evals, depth |-> 1 + diag.depth]
       ELSE [out   |-> diag.out \o send(Marshal(msg).str),
             evals |-> diag.evals + 1,
             depth |-> 1 + diag.depth]

\* Logger.log with a filter that also drops the minimum level itself
log_filterOffByOne(l, level, msg) ==
    LET diag == IF ~validLevel(level)
                THEN Error(l, InvalidLevelFormat, <<IntArg(level)>>)
                ELSE [out |-> <<>>, evals |-> 0, depth |-> 0]
        lvl == IF ~validLevel(level) THEN ERROR ELSE level
    IN IF lvl <= l.logLevel
       THEN [out |-> diag.out, evals |-> diag.evals, depth |-> 1 + diag.depth]
       ELSE [out   |-> diag.out \o send(Marshal(msg).str),
             evals |-> diag.evals + 1,
             depth |-> 1 + diag.depth]

\* Logger.log that invokes the message closure before it filters
log_eager(l, level, msg) ==
    LET diag == IF ~validLevel(level)
                THEN Error(l, InvalidLevelFormat, <<IntArg(level)>>)
                ELSE [out |-> <<>>, evals |-> 0, depth |-> 0]
        lvl == IF ~validLevel(level) THEN ERROR ELSE level
        message == msg
    IN IF lvl < l.logLevel
       THEN [out |-> diag.out, evals |-> diag.evals + 1, depth |-> 1 + diag.depth]
       ELSE [out   |-> diag.out \o send(Marshal(message).str),
             evals |-> diag.evals + 1,
             depth |-> 1 + diag.depth]

log(l, level, msg) ==
    LET diag == IF ~validLevel(level)
                THEN Error(l, InvalidLevelFormat, <<IntArg(level)>>)
                ELSE [out |-> <<>>, evals |-> 0, depth |-> 0]
        lvl == IF ~validLevel(level) THEN ERROR ELSE level
    IN IF lvl < l.logLevel
       THEN [out |-> diag.out, evals |-> diag.evals, depth |-> 1 + diag.depth]
       ELSE LET message == msg
                m == Marshal(message)
            IN [out   |-> diag.out \o send(IF m.err THEN fallbackLine(l, message)
                                                     ELSE m.str),
                evals |-> diag.evals + 1,
                depth |-> 1 + diag.depth]

Debug(l, format, v) == log(l, DEBUG, basicLogMessage(l, DEBUG, format, v))

Info(l, format, v) == log(l, INFO, basicLogMessage(l, INFO, format, v))

Warning(l, format, v) == log(l, WARNING, basicLogMessage(l, WARNING, format, v))

Fatal(l, format, v) == log(l, FATAL, basicLogMessage(l, FATAL, format, v))

\* Logger.Write that reports the length of what it logged
Write_trimmedCount(l, bytes) ==
    [res |-> log(l, WARNING, basicLogMessage(l, WARNING, TrimSuffix(bytes), <<>>)),
     n   |-> Len(TrimSuffix(bytes)),
     err |-> FALSE]

\* Logger.Write(bytes): the log result, and the (int, error) returned
Write(l, bytes) ==
    [res |-> log(l, WARNING, basicLogMessage(l, WARNING, TrimSuffix(bytes), <<>>)),
     n   |-> Len(bytes),
     err |-> FALSE]

\* NewLogger(writer, serviceName, logLevel): (*Logger, error)
NewLogger(serviceName, logLevel) ==
    IF ~validLevel(logLevel)
    THEN [logger |-> Nil, err |-> TRUE]
    ELSE [logger |-> Ptr([serviceName |-> serviceName, logLevel |-> logLevel]),
          err |-> FALSE]

\* Logger.Request that says nothing about an address it could not parse
Request_silentParseFailure(l, r) ==
    LET split == SplitHostPort(r.RemoteAddr)
    IN [rsLog |-> [logger  |-> l,
                   client  |-> IF ~split.err
                               THEN Ptr([Bytes |-> 0, IP |-> split.host, Port |-> split.port])
                               ELSE Nil,
                   network |-> IF r.ForwardedFor # <<>>
                               THEN Ptr([ForwardedIP |-> r.ForwardedFor]) ELSE Nil,
                   trace   |-> IF r.RequestID # <<>> THEN Ptr([ID |-> r.RequestID]) ELSE Nil],
        res   |-> [out |-> <<>>, evals |-> 0, depth |-> 0]]

\* Logger.Request that sets the trace block whether or not the header is there
Request_alwaysTrace(l, r) ==
    LET split == SplitHostPort(r.RemoteAddr)
    IN [rsLog |-> [logger  |-> l,
                   client  |-> IF ~split.err
                               THEN Ptr([Bytes |-> 0, IP |-> split.host, Port |-> split.port])
                               ELSE Nil,
                   network |-> IF r.ForwardedFor # <<>>
                               THEN Ptr([ForwardedIP |-> r.ForwardedFor]) ELSE Nil,
                   trace   |-> Ptr([ID |-> r.RequestID])],
        res   |-> IF ~split.err
                  THEN [out |-> <<>>, evals |-> 0, depth |-> 0]
                  ELSE Error(l, UnableToParseFormat, <<StrArg(r.RemoteAddr)>>)]

\* Logger.Request(r).  r holds what the code reads of the request:
\* r.Header.Get("X-Request-ID"), r.RemoteAddr, r.Header.Get("X-Forwarded-For")
\* (Header.Get yields "" for a header that is absent).
Request(l, r) ==
    LET id == r.RequestID
        split == SplitHostPort(r.RemoteAddr)
        forward == r.ForwardedFor
    IN [rsLog |-> [logger  |-> l,
                   client  |-> IF ~split.err
                               THEN Ptr([Bytes |-> 0, IP |-> split.host, Port |-> split.port])
                               ELSE Nil,
                   network |-> IF forward # <<>> THEN Ptr([ForwardedIP |-> forward]) ELSE Nil,
                   trace   |-> IF id # <<>> THEN Ptr([ID |-> id]) ELSE Nil],
        res   |-> IF ~split.err
                  THEN [out |-> <<>>, evals |-> 0, depth |-> 0]
                  ELSE Error(l, UnableToParseFormat, <<StrArg(r.RemoteAddr)>>)]

\* RequestScopedLogger.Log whose record leaves the service block out
Log_noService(s, level, format, v) ==
    log(s.logger, level,
        [Timestamp |-> Timestamp,
         Message   |-> Sprintf(format, v),
         Client    |-> s.client,
         Log       |-> [Level |-> LevelString(level)],
         Network   |-> Nil,
         Service   |-> [Name |-> <<>>, Type |-> <<>>],
         Trace     |-> s.trace])

\* RequestScopedLogger.Log(level, format, v...)
Log(s, level, format, v) ==
    log(s.logger, level,
        [Timestamp |-> Timestamp,
         Message   |-> Sprintf(format, v),
         Client    |-> s.client,
         Log       |-> [Level |-> LevelString(level)],
         Network   |-> Nil,
         Service   |-> [Name |-> s.logger.serviceName, Type |-> <<>>],
         Trace     |-> s.trace])

----------------------------------------------------------------------------
(* LoggerInjectingMiddleware (src/logger/handler.go).  It builds its       *)
(* scoped logger with log.Request() and the setters Trace, ClientIP,       *)
(* ClientPort and NetworkForwardedIP, which the package's README shows but *)
(* whose code is not among the sources: they are taken to start from a     *)
(* scoped logger without blocks and to set the member they name.           *)

RequestBuilder(l) == [logger |-> l, client |-> Nil, network |-> Nil, trace |-> Nil]

Trace(s, id) == [s EXCEPT !.trace = Ptr([ID |-> id])]

ClientIP(s, ip) ==
    [s EXCEPT !.client = IF @ = Nil THEN Ptr([Bytes |-> 0, IP |-> ip, Port |-> <<>>])
                         ELSE Ptr([@[1] EXCEPT !.IP = ip])]

ClientPort(s, port) ==
    [s EXCEPT !.client = IF @ = Nil THEN Ptr([Bytes |-> 0, IP |-> <<>>, Port |-> port])
                         ELSE Ptr([@[1] EXCEPT !.Port = port])]

NetworkForwardedIP(s, ip) == [s EXCEPT !.network = Ptr([ForwardedIP |-> ip])]

\* the handler LoggerInjectingMiddleware(log)(next) serving r.  ctx: the
\* scoped logger it puts in the request's context; res: what its log.Error
\* call did; made: the handlers it called, in order.
LoggerInjectingMiddleware(log_, r) ==
    LET id == r.RequestID
        split == SplitHostPort(r.RemoteAddr)
        forward == r.ForwardedFor
        s0 == RequestBuilder(log_)
        s1 == IF id # <<>> THEN Trace(s0, id) ELSE s0
        s2 == IF ~split.err THEN ClientPort(ClientIP(s1, split.host), split.port) ELSE s1
        s3 == IF forward # <<>> THEN NetworkForwardedIP(s2, forward) ELSE s2
    IN [ctx  |-> s3,
        res  |-> IF ~split.err
                 THEN [out |-> <<>>, evals |-> 0, depth |-> 0]
                 ELSE Error(log_, UnableToParseFormat, <<StrArg(r.RemoteAddr)>>),
        made |-> <<"next.ServeHTTP">>]

----------------------------------------------------------------------------
(* cassandra: LoggingConnectObserver.  An observed connect is              *)
(* [Addr |-> conn.Host.ConnectAddress().String(), Err |-> <<>> for a nil   *)
(* error or <<conn.Err.Error()>>]: the verb %s prints a net.IP by its      *)
(* String method and an error by its Error method.                         *)

ProblemConnectingFormat ==
    <<"Cassandra: Problem connecting to ", "%", "s", ", (", "%", "s", ")">>

OpenedConnectionFormat == <<"Cassandra: Opened new connection to ", "%", "s">>

\* ObserveConnect without the return that ends the error branch
ObserveConnect_fallThrough(o, conn) ==
    LET e == Error(o.Logger, ProblemConnectingFormat,
                   <<StrArg(conn.Addr), StrArg(conn.Err[1])>>)
        d == Debug(o.Logger, OpenedConnectionFormat, <<StrArg(conn.Addr)>>)
    IN IF conn.Err # Nil
       THEN [made |-> <<"Error", "Debug">>,
             res  |-> [out |-> e.out \o d.out, evals |-> e.evals + d.evals,
                       depth |-> e.depth]]
       ELSE [made |-> <<"Debug">>, res |-> d]

\* LoggingConnectObserver.ObserveConnect(conn).  made: the methods of
\* o.Logger it called, in order; res: what those calls did.
ObserveConnect(o, conn) ==
    IF conn.Err # Nil
    THEN [made |-> <<"Error">>,
          res  |-> Error(o.Logger, ProblemConnectingFormat,
                         <<StrArg(conn.Addr), StrArg(conn.Err[1])>>)]
    ELSE [made |-> <<"Debug">>,
          res  |-> Debug(o.Logger, OpenedConnectionFormat, <<StrArg(conn.Addr)>>)]

----------------------------------------------------------------------------
(* Inputs *)

\* service names: the empty name, and one with a character JSON escapes
ServiceNames == { <<>>, <<"k", "\"">> }

\* the levels NewLogger and RequestScopedLogger.Log are given: the five, and
\* integers that are none of them
LevelArgs == {-1, DEBUG, INFO, WARNING, ERROR, FATAL, 99}

\* (format, args) pairs: plain text; a verb with its operand and an operand
\* too many; a verb with no operand and a lone % at the end
FormatArgs ==
    { [format |-> <<"a">>, v |-> <<>>],
      [format |-> <<"a", "%", "s">>, v |-> <<StrArg(<<"b", "\"">>), StrArg(<<"c">>)>>],
      [format |-> <<"%", "s", "\n", "%">>, v |-> <<>>] }

\* byte strings written through the io.Writer method
ByteStrings ==
    { <<"h", "\n">>, <<"h">>, <<"\n", "\n">>, <<"%", "\n">>, <<"<FF>", "\n">> }

\* requests: each header present or absent, the peer address parseable or not
Requests ==
    [RequestID    : { <<>>, <<"i", "d">> },
     RemoteAddr   : { <<"h", ":", "8">>, <<"h", ":", "8", ":", "9">> },
     ForwardedFor : { <<>>, <<"f">> }]

\* connection events: opened, and failed with an error whose text holds a
\* character JSON escapes
Connects ==
    [Addr : { <<"1", ".", "2">> }, Err : { Nil, Ptr(<<"e", "\"">>) }]

----------------------------------------------------------------------------
(* The state machine *)

Blank ==
    [op |-> "none", level |-> 0, name |-> <<>>, format |-> <<>>, v |-> <<>>,
     bytes |-> <<>>, out |-> <<>>, evals |-> 0, depth |-> 0, n |-> 0, err |-> FALSE,
     conn |-> Nil, made |-> <<>>, req |-> Nil, ctx |-> Nil]

Init ==
    /\ logger = Nil
    /\ sink = <<>>
    /\ request = Nil
    /\ rsLog = Nil
    /\ last = Blank
    /\ calls = 0
    /\ tally = [passing |-> 0, other |-> 0]
    /\ web = Nil
    /\ flows = Nil

Passes(level) == validLevel(level) /\ level >= logger[1].logLevel

\* a logging call: its writes reach the sink in order before it returns
Perform(op, level, format, v, res) ==
    /\ sink' = sink \o res.out
    /\ last' = [Blank EXCEPT !.op = op, !.level = level, !.format = format, !.v = v,
                             !.out = res.out, !.evals = res.evals, !.depth = res.depth]
    /\ calls' = calls + 1
    /\ tally' = IF validLevel(level)
                THEN [tally EXCEPT !.passing = @ + (IF Passes(level) THEN 1 ELSE 0)]
                ELSE [tally EXCEPT !.other = @ + 1]

NewLoggerCall ==
    /\ logger = Nil
    /\ \E serviceName \in ServiceNames, logLevel \in LevelArgs :
         LET r == NewLogger(serviceName, logLevel)
         IN /\ logger' = r.logger
            /\ last' = [Blank EXCEPT !.op = "NewLogger", !.level = logLevel,
                                     !.name = serviceName, !.err = r.err]
    /\ UNCHANGED <<sink, request, rsLog, calls, tally, web, flows>>

DebugCall ==
    /\ logger # Nil /\ calls < MaxCalls
    /\ \E c \in FormatArgs :
         Perform("Debug", DEBUG, c.format, c.v, Debug(logger[1], c.format, c.v))
    /\ UNCHANGED <<logger, request, rsLog, web, flows>>

InfoCall ==
    /\ logger # Nil /\ calls < MaxCalls
    /\ \E c \in FormatArgs :
         Perform("Info", INFO, c.format, c.v, Info(logger[1], c.format, c.v))
    /\ UNCHANGED <<logger, request, rsLog, web, flows>>

WarningCall ==
    /\ logger # Nil /\ calls < MaxCalls
    /\ \E c \in FormatArgs :
         Perform("Warning", WARNING, c.format, c.v, Warning(logger[1], c.format, c.v))
    /\ UNCHANGED <<logger, request, rsLog, web, flows>>

ErrorCall ==
    /\ logger # Nil /\ calls < MaxCalls
    /\ \E c \in FormatArgs :
         Perform("Error", ERROR, c.format, c.v, Error(logger[1], c.format, c.v))
    /\ UNCHANGED <<logger, request, rsLog, web, flows>>

FatalCall ==
    /\ logger # Nil /\ calls < MaxCalls
    /\ \E c \in FormatArgs :
         Perform("Fatal", FATAL, c.format, c.v, Fatal(logger[1], c.format, c.v))
    /\ UNCHANGED <<logger, request, rsLog, web, flows>>

WriteCall ==
    /\ logger # Nil /\ calls < MaxCalls
    /\ \E bytes \in ByteStrings :
         LET w == Write(logger[1], bytes)
         IN /\ sink' = sink \o w.res.out
            /\ last' = [Blank EXCEPT !.op = "Write", !.level = WARNING, !.bytes = bytes,
                                     !.out = w.res.out, !.evals = w.res.evals,
                                     !.depth = w.res.depth, !.n = w.n, !.err = w.err]
    /\ calls' = calls + 1
    /\ tally' = [tally EXCEPT !.other = @ + 1]
    /\ UNCHANGED <<logger, request, rsLog, web, flows>>

RequestCall ==
    /\ logger # Nil /\ calls < MaxCalls
    /\ \E r \in Requests :
         LET q == Request(logger[1], r)
         IN /\ request' = Ptr(r)
            /\ rsLog' = Ptr(q.rsLog)
            /\ sink' = sink \o q.res.out
            /\ last' = [Blank EXCEPT !.op = "Request", !.level = ERROR,
                                     !.out = q.res.out, !.evals = q.res.evals,
                                     !.depth = q.res.depth]
    /\ calls' = calls + 1
    /\ tally' = [tally EXCEPT !.other = @ + 1]
    /\ UNCHANGED <<logger, web, flows>>

LogCall ==
    /\ rsLog # Nil /\ calls < MaxCalls
    /\ \E level \in LevelArgs, c \in FormatArgs :
         Perform("Log", level, c.format, c.v, Log(rsLog[1], level, c.format, c.v))
    /\ UNCHANGED <<logger, request, rsLog, web, flows>>

\* the handler that LoggerInjectingMiddleware wraps around next serves r
LoggerInjectingMiddlewareCall ==
    /\ logger # Nil /\ calls < MaxCalls
    /\ \E r \in Requests :
         LET h == LoggerInjectingMiddleware(logger[1], r)
         IN /\ sink' = sink \o h.res.out
            /\ last' = [Blank EXCEPT !.op = "LoggerInjectingMiddleware", !.level = ERROR,
                                     !.req = Ptr(r), !.ctx = Ptr(h.ctx), !.made = h.made,
                                     !.out = h.res.out, !.evals = h.res.evals,
                                     !.depth = h.res.depth]
    /\ calls' = calls + 1
    /\ tally' = [tally EXCEPT !.other = @ + 1]
    /\ UNCHANGED <<logger, request, rsLog, web, flows>>

\* gocql reports a connection attempt to the observer built on the logger
ObserveConnectCall ==
    /\ logger # Nil /\ calls < MaxCalls
    /\ \E conn \in Connects :
         LET o == [Logger |-> logger[1]]
             r == ObserveConnect(o, conn)
         IN /\ sink' = sink \o r.res.out
            /\ last' = [Blank EXCEPT !.op = "ObserveConnect", !.conn = Ptr(conn),
                                     !.made = r.made, !.out = r.res.out,
                                     !.evals = r.res.evals, !.depth = r.res.depth]
    /\ calls' = calls + 1
    /\ tally' = [tally EXCEPT !.other = @ + 1]
    /\ UNCHANGED <<logger, request, rsLog, web, flows>>

Next ==
    \/ NewLoggerCall
    \/ DebugCall
    \/ InfoCall
    \/ WarningCall
    \/ ErrorCall
    \/ FatalCall
    \/ WriteCall
    \/ RequestCall
    \/ LogCall
    \/ LoggerInjectingMiddlewareCall
    \/ ObserveConnectCall

Spec == Init /\ [][Next]_vars

----------------------------------------------------------------------------
(* Vocabulary of the properties *)

PerLevelOps == {"Debug", "Info", "Warning", "Error", "Fatal"}

\* the canonical name of the level a per-level method stands for
CanonicalName(op) ==
    CASE op = "Debug"   -> <<"DEBUG">>
      [] op = "Info"    -> <<"INFO">>
      [] op = "Warning" -> <<"WARNING">>
      [] op = "Error"   -> <<"ERROR">>
      [] op = "Fatal"   -> <<"FATAL">>

\* the configured minimum level
Minimum == logger[1].logLevel

\* the record a reader of the sink gets from the i-th write of the last call
Read(i) == Unmarshal(last.out[i].line)

Readable(i) == UnmarshalOK(last.out[i].line) /\ last.out[i].nl = "\n"

\* the last call was a logging call with one of the five levels
ValidLevelCall == last.op \in PerLevelOps \cup {"Log"} /\ validLevel(last.level)

\* the last call was RequestScopedLogger.Log with a level that is none of the five
InvalidLevelCall == last.op = "Log" /\ ~validLevel(last.level)

----------------------------------------------------------------------------
(* C1: a logging call with a valid level L under minimum M hands exactly   *)
(* one line to the sink if L >= M and none if L < M; after any sequence of *)
(* such calls the sink holds as many lines as calls had a level >= M.      *)
C1_OneLineIffLevelPasses ==
    /\ ValidLevelCall =>
         Len(last.out) = (IF last.level >= Minimum THEN 1 ELSE 0)
    /\ tally.other = 0 => Len(sink) = tally.passing

\* two valid-level calls were made, one passed the filter and one did not
C1_Witness ==
    /\ ValidLevelCall /\ calls = 2 /\ tally.other = 0
    /\ tally.passing = 1 /\ Len(sink) = 1

(* C2: the message closure is invoked exactly once by a call that passes   *)
(* the filter and never by a call that is filtered out: a call that writes *)
(* nothing has invoked no closure.                                         *)
C2_LazyConstruction ==
    /\ (ValidLevelCall \/ last.op = "Write") =>
         last.evals = (IF last.level >= Minimum THEN 1 ELSE 0)
    /\ last.out = <<>> => last.evals = 0

\* a per-level call with a verb to expand was filtered out
C2_Witness ==
    /\ last.op \in PerLevelOps /\ last.level < Minimum
    /\ last.v # <<>> /\ last.evals = 0 /\ last.out = <<>>

(* C3: the record a per-level method emits has the format expanded with    *)
(* the arguments as its message and the canonical name of the method's     *)
(* level as its log.level.                                                 *)
C3_MessageAndLevel ==
    (last.op \in PerLevelOps /\ last.out # <<>>) =>
        /\ Len(last.out) = 1
        /\ Readable(1)
        /\ Read(1).Message = Sprintf(last.format, last.v)
        /\ Read(1).Log.Level = CanonicalName(last.op)

\* Warning emitted a record whose message had an operand expanded into it
C3_Witness ==
    /\ last.op = "Warning" /\ Len(last.out) = 1
    /\ last.v # <<>>
    /\ Read(1).Message = <<"a", "b", "\"", "%!(EXTRA ", "string", "=", "c", ")">>

(* C4: every line in the sink reads back as a record whose service.name is *)
(* the name the Logger was constructed with.                               *)
C4_ServiceName ==
    \A i \in 1..Len(sink) :
        /\ UnmarshalOK(sink[i].line)
        /\ Unmarshal(sink[i].line).Service.Name = logger[1].serviceName

\* the sink holds a self-diagnostic line and a scoped logger's record of a
\* logger with a non-empty name
C4_Witness ==
    /\ InvalidLevelCall /\ Len(last.out) = 2 /\ Len(sink) >= 2
    /\ logger[1].serviceName = <<"k", "\"">>

(* C5: NewLogger returns an error and no logger for a level that is none   *)
(* of the five, a logger and no error for each of the five, and writes     *)
(* nothing to the sink.                                                    *)
C5_NewLogger ==
    last.op = "NewLogger" =>
        /\ last.err <=> last.level \notin {0, 1, 2, 3, 4}
        /\ last.err => logger = Nil
        /\ ~last.err => logger = Ptr([serviceName |-> last.name, logLevel |-> last.level])
        /\ sink = <<>>

\* construction with level 99 failed
C5_Witness ==
    last.op = "NewLogger" /\ last.level = 99 /\ last.err /\ logger = Nil

(* C6: Logger.Write(b) produces exactly one record, whose log.level is     *)
(* WARNING and whose message is b with its trailing newline stripped.      *)
C6_WriteOneWarningRecord ==
    last.op = "Write" =>
        /\ Len(last.out) = 1
        /\ Readable(1)
        /\ Read(1).Log.Level = <<"WARNING">>
        /\ Read(1).Message = TrimSuffix(last.bytes)

(* C7: Logger.Write(b) returns len(b) and a nil error, whether or not the  *)
(* message passed the filter.                                              *)
C7_WriteReturnsFullCount ==
    last.op = "Write" => last.n = Len(last.bytes) /\ ~last.err

\* a Write ending in a newline was filtered out and reported its full length
C7_Witness ==
    /\ last.op = "Write" /\ last.out = <<>> /\ last.bytes = <<"h", "\n">>
    /\ last.n = 2

(* C8: a scoped call with a level that is none of the five first emits an  *)
(* ERROR self-diagnostic naming the level and then the caller's record     *)
(* coerced to ERROR, under every minimum level.                            *)
C8_InvalidLevelDiagnosticThenRecord ==
    InvalidLevelCall =>
        /\ Len(last.out) = 2
        /\ Readable(1) /\ Readable(2)
        /\ Read(1).Log.Level = <<"ERROR">>
        /\ Read(1).Message = Sprintf(InvalidLevelFormat, <<IntArg(last.level)>>)
        /\ Read(2).Message = Sprintf(last.format, last.v)
        /\ Read(2).Log.Level = <<"ERROR">>

(* C9: a record logged through Logger.Request(r).Log has a trace.id iff r  *)
(* had a request-id header, client.ip and client.port iff r's address      *)
(* parsed, and network.forwarded_ip iff r had a forwarded-for header, each *)
(* equal to the value captured.                                            *)
C9_ScopedRecordCarriesEnrichments ==
    (last.op = "Log" /\ last.out # <<>>) =>
        LET rec == Read(Len(last.out))
            r == request[1]
            split == SplitHostPort(r.RemoteAddr)
        IN /\ Readable(Len(last.out))
           /\ rec.Trace = (IF r.RequestID # <<>> THEN Ptr([ID |-> r.RequestID]) ELSE Nil)
           /\ rec.Client = (IF ~split.err
                            THEN Ptr([Bytes |-> 0, IP |-> split.host, Port |-> split.port])
                            ELSE Nil)
           /\ rec.Network = (IF r.ForwardedFor # <<>>
                             THEN Ptr([ForwardedIP |-> r.ForwardedFor])
                             ELSE Nil)

(* C10: a scope derived from a request whose request-id header is T yields *)
(* records with trace.id equal to T, every time it is derived; a scope     *)
(* derived from a request without the header yields records with no trace  *)
(* block at all.                                                           *)
C10_TraceIdFromHeader ==
    /\ rsLog # Nil =>
         rsLog[1].trace = (IF request[1].RequestID # <<>>
                           THEN Ptr([ID |-> request[1].RequestID]) ELSE Nil)
    /\ (last.op = "Log" /\ last.out # <<>>) =>
         LET line == last.out[Len(last.out)].line
             T == request[1].RequestID
         IN IF T # <<>>
            THEN /\ "trace" \in line.objs
                 /\ "trace.id" \in DOMAIN line.strs
                 /\ Unquote(line.strs["trace.id"]) = [ok |-> TRUE, s |-> T]
            ELSE /\ "trace" \notin line.objs
                 /\ "trace.id" \notin DOMAIN line.strs

\* a record was logged through a scope derived from a request without the header
C10_Witness ==
    /\ last.op = "Log" /\ last.out # <<>> /\ request[1].RequestID = <<>>
    /\ "trace" \notin last.out[Len(last.out)].line.objs

----------------------------------------------------------------------------
\* the last call derived a scope from a request whose address does not parse
UnparseableDerivation ==
    last.op = "Request" /\ SplitHostPort(request[1].RemoteAddr).err

\* the last call was the injecting middleware serving a request whose
\* address does not parse
UnparseableInjection ==
    last.op = "LoggerInjectingMiddleware" /\ SplitHostPort(last.req[1].RemoteAddr).err

\* what Logger.Request captured of the two headers is what the request held
EnrichmentsCaptured ==
    /\ rsLog[1].trace = (IF request[1].RequestID # <<>>
                         THEN Ptr([ID |-> request[1].RequestID]) ELSE Nil)
    /\ rsLog[1].network = (IF request[1].ForwardedFor # <<>>
                           THEN Ptr([ForwardedIP |-> request[1].ForwardedFor]) ELSE Nil)

\* no record of a scope derived from an unparseable address has a client block
NoClientBlock ==
    (last.op = "Log" /\ SplitHostPort(request[1].RemoteAddr).err) =>
        \A i \in 1..Len(last.out) :
            /\ "client" \notin last.out[i].line.objs
            /\ Unmarshal(last.out[i].line).Client = Nil

(* C11 as stated: deriving a scope from a request whose address does not   *)
(* parse still yields a scoped logger, without client fields and with the  *)
(* trace and forwarded-for values captured, and the parent logger emits    *)
(* exactly one ERROR diagnostic line, under every minimum level.           *)
C11_OneDiagnosticUnderEveryMinimum ==
    /\ UnparseableDerivation =>
         /\ rsLog # Nil /\ rsLog[1].client = Nil
         /\ EnrichmentsCaptured
         /\ Len(last.out) = 1
         /\ Readable(1)
         /\ Read(1).Log.Level = <<"ERROR">>
    /\ UnparseableInjection =>
         /\ last.ctx # Nil /\ last.made = <<"next.ServeHTTP">>
         /\ Len(last.out) = 1
         /\ Readable(1)
         /\ Read(1).Log.Level = <<"ERROR">>
    /\ NoClientBlock

(* C11, amended: as above, but the diagnostic goes through Logger.Error    *)
(* and so through the filter: exactly one ERROR line, naming the address,  *)
(* when the minimum level is at most ERROR, and no line at all when the    *)
(* minimum level is FATAL.                                                 *)
C11_OneDiagnosticUnlessFiltered ==
    /\ UnparseableDerivation =>
         /\ rsLog # Nil /\ rsLog[1].client = Nil
         /\ EnrichmentsCaptured
         /\ Len(last.out) = (IF Minimum <= ERROR THEN 1 ELSE 0)
         /\ Len(last.out) = 1 =>
              /\ Readable(1)
              /\ Read(1).Log.Level = <<"ERROR">>
              /\ Read(1).Message =
                   Sprintf(UnableToParseFormat, <<StrArg(request[1].RemoteAddr)>>)
              /\ Read(1).Client = Nil
    /\ UnparseableInjection =>
         /\ last.ctx # Nil /\ last.made = <<"next.ServeHTTP">>
         /\ Len(last.out) = (IF Minimum <= ERROR THEN 1 ELSE 0)
         /\ Len(last.out) = 1 =>
              /\ Readable(1)
              /\ Read(1).Log.Level = <<"ERROR">>
              /\ Read(1).Message =
                   Sprintf(UnableToParseFormat, <<StrArg(last.req[1].RemoteAddr)>>)
    /\ NoClientBlock

\* a scope was derived from an unparseable address with both headers set,
\* and the one diagnostic was written
C11_Witness ==
    /\ UnparseableDerivation /\ Len(last.out) = 1
    /\ rsLog[1].client = Nil /\ rsLog[1].trace # Nil /\ rsLog[1].network # Nil

----------------------------------------------------------------------------
(* The Logger of src/logger/logger.go: the version of the package with a   *)
(* service type, a ScopedLogger bound to a trace id (Logger.TraceID) and a *)
(* LogMessage whose blocks are struct values, not pointers.  Its           *)
(* definitions carry the prefix LoggerGo_; validLevel, LevelString and     *)
(* send are the same in both versions.  A state of this version keeps      *)
(* logger = <<[serviceName, serviceType, logLevel]>> and                   *)
(* rsLog = <<[logger, traceID]>>.                                          *)

\* encoding/json's isEmptyValue, which decides what omitempty leaves out:
\* a string of length 0, a nil pointer; a struct value is never empty
isEmptyValue(kind, v) ==
    CASE kind = "string"  -> Len(v) = 0
      [] kind = "pointer" -> v = Nil
      [] kind = "struct"  -> FALSE

\* json.Marshal of logger.go's LogMessage.  Only Trace is tagged omitempty;
\* no member of the blocks is.
LoggerGo_Marshal(m) ==
    LET trace == ~isEmptyValue("struct", m.Trace)
    IN [err |-> FALSE,
        str |-> [objs |-> {"log", "service"} \cup (IF trace THEN {"trace"} ELSE {}),
                 strs |-> [p \in {"@timestamp", "message", "log.level", "service.name",
                                  "service.type"}
                                 \cup (IF trace THEN {"trace.id"} ELSE {}) |->
                             EncodeString(
                               CASE p = "@timestamp"   -> m.Timestamp
                                 [] p = "message"      -> m.Message
                                 [] p = "log.level"    -> m.Log.Level
                                 [] p = "service.name" -> m.Service.Name
                                 [] p = "service.type" -> m.Service.Type
                                 [] p = "trace.id"     -> m.Trace.ID)],
                 nums |-> <<>>]]

\* what the closure of logger.go's basicLogMessage yields: Trace is left at
\* its zero value
LoggerGo_basicLogMessage(l, level, format, v) ==
    [Timestamp |-> Timestamp,
     Message   |-> Sprintf(format, v),
     Log       |-> [Level |-> LevelString(level)],
     Service   |-> [Name |-> l.serviceName, Type |-> l.serviceType],
     Trace     |-> [ID |-> <<>>]]

\* the verb %v on logger.go's LogMessage: Timestamp Message Log Service Trace
LoggerGo_LogMessageString(m) ==
    <<"{">> \o m.Timestamp \o <<" ">> \o m.Message
    \o <<" ", "{">> \o m.Log.Level \o <<"}">>
    \o <<" ", "{">> \o m.Service.Name \o <<" ">> \o m.Service.Type \o <<"}">>
    \o <<" ", "{">> \o m.Trace.ID \o <<"}", "}">>

\* the hand-built line of logger.go's Logger.log
LoggerGo_fallbackLine(l, message) ==
    [objs |-> {"service"},
     strs |-> [p \in {"message", "service.name"} |->
                 IF p = "message"
                 THEN <<"Error serializing log message: ">>
                      \o LoggerGo_LogMessageString(message)
                      \o <<" (">> \o MarshalErrorText \o <<")">>
                 ELSE l.serviceName],
     nums |-> <<>>]

RECURSIVE LoggerGo_log(_, _, _)

LoggerGo_Error(l, format, v) ==
    LoggerGo_log(l, ERROR, LoggerGo_basicLogMessage(l, ERROR, format, v))

LoggerGo_log(l, level, msg) ==
    LET diag == IF ~validLevel(level)
                THEN LoggerGo_Error(l, InvalidLevelFormat, <<IntArg(level)>>)
                ELSE [out |-> <<>>, evals |-> 0, depth |-> 0]
        lvl == IF ~validLevel(level) THEN ERROR ELSE level
    IN IF lvl < l.logLevel
       THEN [out |-> diag.out, evals |-> diag.evals, depth |-> 1 + diag.depth]
       ELSE LET message == msg
                m == LoggerGo_Marshal(message)
            IN [out   |-> diag.out \o send(IF m.err THEN LoggerGo_fallbackLine(l, message)
                                                     ELSE m.str),
                evals |-> diag.evals + 1,
                depth |-> 1 + diag.depth]

LoggerGo_Fatal(l, format, v) ==
    LoggerGo_log(l, FATAL, LoggerGo_basicLogMessage(l, FATAL, format, v))

LoggerGo_Warning(l, format, v) ==
    LoggerGo_log(l, WARNING, LoggerGo_basicLogMessage(l, WARNING, format, v))

LoggerGo_Info(l, format, v) ==
    LoggerGo_log(l, INFO, LoggerGo_basicLogMessage(l, INFO, format, v))

LoggerGo_Debug(l, format, v) ==
    LoggerGo_log(l, DEBUG, LoggerGo_basicLogMessage(l, DEBUG, format, v))

LoggerGo_Write(l, bytes) ==
    [res |-> LoggerGo_log(l, WARNING,
                          LoggerGo_basicLogMessage(l, WARNING, TrimSuffix(bytes), <<>>)),
     n   |-> Len(bytes),
     err |-> FALSE]

\* Logger.TraceID(id)
LoggerGo_TraceID(l, id) == [logger |-> l, traceID |-> id]

\* ScopedLogger.Log(level, format, v...)
LoggerGo_Log(s, level, format, v) ==
    LoggerGo_log(s.logger, level,
        [Timestamp |-> Timestamp,
         Message   |-> Sprintf(format, v),
         Log       |-> [Level |-> LevelString(level)],
         Service   |-> [Name |-> s.logger.serviceName, Type |-> s.logger.serviceType],
         Trace     |-> [ID |-> s.traceID]])

\* NewLogger(writer, serviceName, serviceType, logLevel)
LoggerGo_NewLogger(serviceName, serviceType, logLevel) ==
    IF ~validLevel(logLevel)
    THEN [logger |-> Nil, err |-> TRUE]
    ELSE [logger |-> Ptr([serviceName |-> serviceName, serviceType |-> serviceType,
                          logLevel |-> logLevel]),
          err |-> FALSE]

\* service types: none, and one
ServiceTypes == { <<>>, <<"t">> }

\* the ids a scope is bound to: the empty id, and one
TraceIDs == { <<>>, <<"i", "d">> }

LoggerGo_NewLoggerCall ==
    /\ logger = Nil
    /\ \E serviceName \in ServiceNames, serviceType \in ServiceTypes,
          logLevel \in LevelArgs :
         LET r == LoggerGo_NewLogger(serviceName, serviceType, logLevel)
         IN /\ logger' = r.logger
            /\ last' = [Blank EXCEPT !.op = "NewLogger", !.level = logLevel,
                                     !.name = serviceName, !.err = r.err]
    /\ UNCHANGED <<sink, request, rsLog, calls, tally, web, flows>>

LoggerGo_DebugCall ==
    /\ logger # Nil /\ calls < MaxCalls
    /\ \E c \in FormatArgs :
         Perform("Debug", DEBUG, c.format, c.v, LoggerGo_Debug(logger[1], c.format, c.v))
    /\ UNCHANGED <<logger, request, rsLog, web, flows>>

LoggerGo_InfoCall ==
    /\ logger # Nil /\ calls < MaxCalls
    /\ \E c \in FormatArgs :
         Perform("Info", INFO, c.format, c.v, LoggerGo_Info(logger[1], c.format, c.v))
    /\ UNCHANGED <<logger, request, rsLog, web, flows>>

LoggerGo_WarningCall ==
    /\ logger # Nil /\ calls < MaxCalls
    /\ \E c \in FormatArgs :
         Perform("Warning", WARNING, c.format, c.v,
                 LoggerGo_Warning(logger[1], c.format, c.v))
    /\ UNCHANGED <<logger, request, rsLog, web, flows>>

LoggerGo_ErrorCall ==
    /\ logger # Nil /\ calls < MaxCalls
    /\ \E c \in FormatArgs :
         Perform("Error", ERROR, c.format, c.v, LoggerGo_Error(logger[1], c.format, c.v))
    /\ UNCHANGED <<logger, request, rsLog, web, flows>>

LoggerGo_FatalCall ==
    /\ logger # Nil /\ calls < MaxCalls
    /\ \E c \in FormatArgs :
         Perform("Fatal", FATAL, c.format, c.v, LoggerGo_Fatal(logger[1], c.format, c.v))
    /\ UNCHANGED <<logger, request, rsLog, web, flows>>

LoggerGo_WriteCall ==
    /\ logger # Nil /\ calls < MaxCalls
    /\ \E bytes \in ByteStrings :
         LET w == LoggerGo_Write(logger[1], bytes)
         IN /\ sink' = sink \o w.res.out
            /\ last' = [Blank EXCEPT !.op = "Write", !.level = WARNING, !.bytes = bytes,
                                     !.out = w.res.out, !.evals = w.res.evals,
                                     !.depth = w.res.depth, !.n = w.n, !.err = w.err]
    /\ calls' = calls + 1
    /\ tally' = [tally EXCEPT !.other = @ + 1]
    /\ UNCHANGED <<logger, request, rsLog, web, flows>>

LoggerGo_TraceIDCall ==
    /\ logger # Nil /\ calls < MaxCalls
    /\ \E id \in TraceIDs :
         /\ rsLog' = Ptr(LoggerGo_TraceID(logger[1], id))
         /\ last' = [Blank EXCEPT !.op = "TraceID", !.name = id]
    /\ calls' = calls + 1
    /\ UNCHANGED <<logger, sink, request, tally, web, flows>>

LoggerGo_LogCall ==
    /\ rsLog # Nil /\ calls < MaxCalls
    /\ \E level \in LevelArgs, c \in FormatArgs :
         Perform("Log", level, c.format, c.v,
                 LoggerGo_Log(rsLog[1], level, c.format, c.v))
    /\ UNCHANGED <<logger, request, rsLog, web, flows>>

LoggerGo_Next ==
    \/ LoggerGo_NewLoggerCall
    \/ LoggerGo_DebugCall
    \/ LoggerGo_InfoCall
    \/ LoggerGo_WarningCall
    \/ LoggerGo_ErrorCall
    \/ LoggerGo_FatalCall
    \/ LoggerGo_WriteCall
    \/ LoggerGo_TraceIDCall
    \/ LoggerGo_LogCall

LoggerGo_Spec == Init /\ [][LoggerGo_Next]_vars

(* C12: in src/logger/logger.go, a record emitted by Debug, Info, Warning, *)
(* Error, Fatal or Write of a Logger (no trace id was ever supplied)       *)
(* contains no trace block: the serialized line has neither a trace object *)
(* nor a trace.id member.                                                  *)
C12_NoTraceBlockWithoutRequest ==
    (last.op \in PerLevelOps \cup {"Write"}) =>
        \A i \in 1..Len(last.out) :
            /\ "trace" \notin last.out[i].line.objs
            /\ "trace.id" \notin DOMAIN last.out[i].line.strs

----------------------------------------------------------------------------
\* the connection event the last ObserveConnect was given
Event == last.conn[1]

(* C13: ObserveConnect makes exactly one logger call per connection event: *)
(* Logger.Error, with the address and the error text, when the event       *)
(* carries an error, and Logger.Debug otherwise; never both, never a       *)
(* failed connection at DEBUG nor a successful one at ERROR.               *)
C13_OneLoggerCallPerEvent ==
    last.op = "ObserveConnect" =>
        /\ Len(last.made) = 1
        /\ last.made[1] = (IF Event.Err # Nil THEN "Error" ELSE "Debug")
        /\ Len(last.out) =
             (IF (IF Event.Err # Nil THEN ERROR ELSE DEBUG) >= Minimum THEN 1 ELSE 0)
        /\ \A i \in 1..Len(last.out) :
             /\ Readable(i)
             /\ Read(i).Log.Level =
                  (IF Event.Err # Nil THEN <<"ERROR">> ELSE <<"DEBUG">>)
             /\ Read(i).Message =
                  (IF Event.Err # Nil
                   THEN <<"Cassandra: Problem connecting to ">> \o Event.Addr
                        \o <<", (">> \o Event.Err[1] \o <<")">>
                   ELSE <<"Cassandra: Opened new connection to ">> \o Event.Addr)

\* a failed connection was reported and its one ERROR record written
C13_Witness ==
    /\ last.op = "ObserveConnect" /\ Event.Err # Nil
    /\ last.made = <<"Error">> /\ Len(last.out) = 1
    /\ Read(1).Log.Level = <<"ERROR">>

----------------------------------------------------------------------------
(* middleware: PrometheusInstrumentationMiddleware.  The server runs each  *)
(* request in a goroutine of its own; what a downstream handler does with  *)
(* the writer it is given is the environment's choice.  web is             *)
(* [req |-> the requests by id, counter, hist |-> the two metric vectors]; *)
(* a vector is kept as the value of each (code, method) child, which is 0  *)
(* for a child that was never used.                                        *)

\* how many requests the server is given
MaxRequests == 2

\* strconv.Itoa
Itoa(n) == Decimal(n)

\* the status newStatusObserver starts from
DefaultStatus == 200

\* the ResponseWriter the server hands to the outermost handler, as
\* net/http's is: the first WriteHeader decides the status of the response,
\* a later one is ignored; a Write, or the end of the request, before any
\* WriteHeader writes the header with status 200.  calls: the codes its
\* WriteHeader was called with.
ServerResponseWriter == [wroteHeader |-> FALSE, status |-> 0, calls |-> <<>>]

ResponseWriter_WriteHeader(w, code) ==
    [wroteHeader |-> TRUE,
     status |-> IF w.wroteHeader THEN w.status ELSE code,
     calls |-> Append(w.calls, code)]

ResponseWriter_Write(w) ==
    IF w.wroteHeader THEN w ELSE [w EXCEPT !.wroteHeader = TRUE, !.status = 200]

\* newStatusObserver(w)
newStatusObserver(w) == [ResponseWriter |-> w, status |-> DefaultStatus]

\* statusObserver.WriteHeader(code)
WriteHeader(r, code) ==
    [ResponseWriter |-> ResponseWriter_WriteHeader(r.ResponseWriter, code),
     status |-> code]

\* the label values of both metrics: WithLabelValues(strconv.Itoa(status), method)
WithLabelValues(status, method) == <<Itoa(status), method>>

\* a call a handler makes on the writer it was given
WriteHeaderOp(code) == [op |-> "WriteHeader", code |-> code]
WriteOp == [op |-> "Write", code |-> 0]

\* what a handler has done with its writer, at any time before it returns:
\* nothing; one WriteHeader; two WriteHeader calls with different codes; a
\* Write, which is a Write of the embedded ResponseWriter; a Write and then
\* a WriteHeader
HandlerRuns ==
    { <<>>,
      <<WriteHeaderOp(404)>>,
      <<WriteHeaderOp(404), WriteHeaderOp(500)>>,
      <<WriteOp>>,
      <<WriteOp, WriteHeaderOp(500)>> }

\* the codes a handler passes to WriteHeader
StatusCodes == {404, 500}

\* r.Method
Methods == { <<"GET">>, <<"POST">> }

RequestIds == 1..MaxRequests

Labels == {WithLabelValues(s, m) : s \in StatusCodes \cup {DefaultStatus}, m \in Methods}

\* a request the server has not been given yet
NoRequest ==
    [pc |-> "idle", method |-> <<>>, observer |-> Nil, invoked |-> 0,
     called |-> <<>>, observed |-> <<>>, counted |-> <<>>]

Middleware_Init ==
    /\ logger = Nil
    /\ sink = <<>>
    /\ request = Nil
    /\ rsLog = Nil
    /\ last = Blank
    /\ calls = 0
    /\ tally = [passing |-> 0, other |-> 0]
    /\ flows = Nil
    /\ web = [req     |-> [r \in RequestIds |-> NoRequest],
              counter |-> [l \in Labels |-> 0],
              hist    |-> [l \in Labels |-> 0]]

NotWeb == <<logger, sink, request, rsLog, last, calls, tally, flows>>

\* the middleware's handler function up to and into next.ServeHTTP(observer, r)
ServeHTTP(r) ==
    /\ web.req[r].pc = "idle"
    /\ r > 1 => web.req[r - 1].pc # "idle"
    /\ \E method \in Methods :
         web' = [web EXCEPT !.req[r] =
                   [NoRequest EXCEPT !.pc = "serving", !.method = method,
                                     !.observer = Ptr(newStatusObserver(ServerResponseWriter)),
                                     !.invoked = 1]]
    /\ UNCHANGED NotWeb

\* the downstream handler calls WriteHeader on the writer it was given
HandlerWriteHeader(r) ==
    /\ web.req[r].pc = "serving"
    /\ \E code \in StatusCodes :
         /\ Append(web.req[r].called, WriteHeaderOp(code)) \in HandlerRuns
         /\ web' = [web EXCEPT !.req[r].observer = Ptr(WriteHeader(@[1], code)),
                               !.req[r].called = Append(@, WriteHeaderOp(code))]
    /\ UNCHANGED NotWeb

\* the downstream handler calls Write, which statusObserver does not
\* override: the call goes to the embedded ResponseWriter
HandlerWrite(r) ==
    /\ web.req[r].pc = "serving"
    /\ Append(web.req[r].called, WriteOp) \in HandlerRuns
    /\ web' = [web EXCEPT !.req[r].observer =
                 Ptr([@[1] EXCEPT !.ResponseWriter = ResponseWriter_Write(@)]),
                          !.req[r].called = Append(@, WriteOp)]
    /\ UNCHANGED NotWeb

\* next.ServeHTTP returns
HandlerReturn(r) ==
    /\ web.req[r].pc = "serving"
    /\ web' = [web EXCEPT !.req[r].pc = "returned"]
    /\ UNCHANGED NotWeb

\* next.ServeHTTP panics: the rest of the middleware's function does not
\* run, and its observer is gone with its frame
HandlerPanic(r) ==
    /\ web.req[r].pc = "serving"
    /\ web' = [web EXCEPT !.req[r] = [NoRequest EXCEPT !.pc = "panicked", !.invoked = 1]]
    /\ UNCHANGED NotWeb

\* Observe that labels the duration with the status the observer started from
Observe_defaultLabel(r) ==
    /\ web.req[r].pc = "returned"
    /\ LET l == WithLabelValues(DefaultStatus, web.req[r].method)
       IN web' = [web EXCEPT !.req[r].pc = "observed",
                             !.req[r].observed = Append(@, l),
                             !.hist[l] = @ + 1]
    /\ UNCHANGED NotWeb

\* latencyHist.WithLabelValues(...).Observe(time.Since(start).Seconds())
Observe(r) ==
    /\ web.req[r].pc = "returned"
    /\ LET l == WithLabelValues(web.req[r].observer[1].status, web.req[r].method)
       IN web' = [web EXCEPT !.req[r].pc = "observed",
                             !.req[r].observed = Append(@, l),
                             !.hist[l] = @ + 1]
    /\ UNCHANGED NotWeb

\* reqCounter.WithLabelValues(...).Inc(), and the return to the server,
\* which ends the response (a header not written yet is written now)
Inc(r) ==
    /\ web.req[r].pc = "observed"
    /\ LET l == WithLabelValues(web.req[r].observer[1].status, web.req[r].method)
       IN web' = [web EXCEPT !.req[r].pc = "done",
                             !.req[r].counted = Append(@, l),
                             !.req[r].observer =
                                Ptr([@[1] EXCEPT !.ResponseWriter = ResponseWriter_Write(@)]),
                             !.counter[l] = @ + 1]
    /\ UNCHANGED NotWeb

Middleware_Next ==
    \E r \in RequestIds :
        \/ ServeHTTP(r)
        \/ HandlerWriteHeader(r)
        \/ HandlerWrite(r)
        \/ HandlerReturn(r)
        \/ HandlerPanic(r)
        \/ Observe(r)
        \/ Inc(r)

\* once next.ServeHTTP has returned, the goroutine goes on to the two
\* statements that follow it: neither blocks
Middleware_Spec ==
    /\ Middleware_Init
    /\ [][Middleware_Next]_vars
    /\ \A r \in RequestIds : WF_vars(Observe(r)) /\ WF_vars(Inc(r))

\* the requests that reached a position
At(pcs) == {r \in RequestIds : web.req[r].pc \in pcs}

\* the codes of the WriteHeader calls among a handler's calls, in order
RECURSIVE HeaderCodes(_)
HeaderCodes(ops) ==
    IF ops = <<>> THEN <<>>
    ELSE (IF Head(ops).op = "WriteHeader" THEN <<Head(ops).code>> ELSE <<>>)
         \o HeaderCodes(Tail(ops))

\* the label a request's metrics are to carry: its method, and the status
\* its handler set last, 200 when it set none
HandlerLabel(r) ==
    LET codes == HeaderCodes(web.req[r].called)
    IN WithLabelValues(IF codes = <<>> THEN 200 ELSE codes[Len(codes)],
                       web.req[r].method)

\* the state part of C14: one invocation per request, no report before the
\* handler returns, then one observation and one increment with the same
\* label, and metric values that count the requests with each label
C14_Safety ==
    /\ \A r \in RequestIds :
         /\ web.req[r].invoked = (IF web.req[r].pc = "idle" THEN 0 ELSE 1)
         /\ web.req[r].pc \in {"idle", "serving", "panicked", "returned"} =>
              web.req[r].observed = <<>> /\ web.req[r].counted = <<>>
         /\ web.req[r].pc = "observed" =>
              web.req[r].observed = <<HandlerLabel(r)>> /\ web.req[r].counted = <<>>
         /\ web.req[r].pc = "done" =>
              /\ web.req[r].observed = <<HandlerLabel(r)>>
              /\ web.req[r].counted = web.req[r].observed
    /\ \A l \in Labels :
         /\ web.counter[l] = Cardinality({r \in At({"done"}) : HandlerLabel(r) = l})
         /\ web.hist[l] =
              Cardinality({r \in At({"observed", "done"}) : HandlerLabel(r) = l})

(* C14: for each request the downstream handler is invoked exactly once;   *)
(* nothing is reported before it returns; once it has returned, exactly    *)
(* one duration observation and one counter increment are reported, both   *)
(* with the label (status, method), the status being 200 when the handler  *)
(* set none; so the counter and the histogram count of a label are the     *)
(* number of requests handled with that label, N for N GET requests that   *)
(* set no status.                                                          *)
C14_OnceAfterReturn ==
    /\ []C14_Safety
    /\ \A r \in RequestIds : (web.req[r].pc = "returned") ~> (web.req[r].pc = "done")

\* every request was a GET whose handler set no status, and all are counted
C14_Witness ==
    /\ At({"done"}) = RequestIds
    /\ \A r \in RequestIds :
         web.req[r].method = <<"GET">> /\ HeaderCodes(web.req[r].called) = <<>>
    /\ web.counter[<<Itoa(200), <<"GET">>>>] = MaxRequests
    /\ web.hist[<<Itoa(200), <<"GET">>>>] = MaxRequests

(* C18: the status that labels a request's metrics is 200 when its handler *)
(* never called WriteHeader, and otherwise the status of the response that *)
(* was written to the underlying ResponseWriter, whatever sequence of      *)
(* WriteHeader calls the handler made; every WriteHeader call is forwarded *)
(* to the wrapped writer.                                                  *)
C18_LabelIsStatusWritten ==
    \A r \in RequestIds :
        /\ web.req[r].pc \in {"serving", "returned", "observed", "done"} =>
             web.req[r].observer[1].ResponseWriter.calls = HeaderCodes(web.req[r].called)
        /\ web.req[r].pc = "done" =>
             /\ web.req[r].observer[1].ResponseWriter.wroteHeader
             /\ web.req[r].counted[1][1] =
                  Itoa(IF HeaderCodes(web.req[r].called) = <<>> THEN 200
                       ELSE web.req[r].observer[1].ResponseWriter.status)

----------------------------------------------------------------------------
CanonicalNames == { <<"DEBUG">>, <<"INFO">>, <<"WARNING">>, <<"ERROR">>, <<"FATAL">> }

(* C15: every line in the sink reads back with a log.level that is one of  *)
(* DEBUG, INFO, WARNING, ERROR, FATAL, after any sequence of calls; the    *)
(* record of a RequestScopedLogger.Log call with a level that is none of   *)
(* the five carries "ERROR", never the empty string.                       *)
C15_CanonicalLevelOnEveryLine ==
    /\ \A i \in 1..Len(sink) :
         /\ UnmarshalOK(sink[i].line)
         /\ Unmarshal(sink[i].line).Log.Level \in CanonicalNames
    /\ (InvalidLevelCall /\ last.out # <<>>) =>
         Read(Len(last.out)).Log.Level = <<"ERROR">>

----------------------------------------------------------------------------
(* C16: every call of Logger.log ends, and self-logging does not recurse:  *)
(* a call with a level that is none of the five nests exactly one further  *)
(* call of log, the ERROR diagnostic, whose level is valid and which nests *)
(* none; a call with a valid level nests none.  The nesting depth of log   *)
(* is at most 2 whatever the level and the minimum.                        *)
C16_NestingDepthAtMostTwo ==
    /\ last.depth <= 2
    /\ last.depth = 2 <=> InvalidLevelCall
    /\ (ValidLevelCall \/ last.op \in {"Write", "ObserveConnect"}) => last.depth = 1
    /\ InvalidLevelCall =>
         /\ last.evals = Len(last.out)
         /\ Len(last.out) = (IF Minimum <= ERROR THEN 2 ELSE 0)
         /\ Len(last.out) = 2 =>
              /\ Read(1).Log.Level = <<"ERROR">>
              /\ Read(1).Message = Sprintf(InvalidLevelFormat, <<IntArg(last.level)>>)

\* a scoped call with level 99 nested the diagnostic and nothing deeper
C16_Witness ==
    /\ InvalidLevelCall /\ last.level = 99
    /\ last.depth = 2 /\ Len(last.out) = 2

----------------------------------------------------------------------------
(* Concurrent use of one Logger.  A Logger is not written after NewLogger, *)
(* so the only thing the flows share is the writer: a call's steps that    *)
(* other flows can tell apart are its Writes on the sink, each of which    *)
(* the sink performs atomically.  flows is                                 *)
(* [pc, k, made, issued, todo |-> per flow; order |-> who made each write  *)
(* the sink received].                                                     *)

\* how many calls each flow makes
MaxFlowCalls == 2

FlowIds == {"f", "g"}

\* the minimum levels of the shared Logger
FlowMinimums == {DEBUG, WARNING, FATAL}

\* the calls a flow makes: Logger.Info, and RequestScopedLogger.Log with a
\* level that is none of the five (which logs twice)
FlowOps == {"Info", "Log"}

\* the request the flows' scoped logger was derived from
FlowRequest ==
    [RequestID |-> <<"i", "d">>, RemoteAddr |-> <<"h", ":", "8">>, ForwardedFor |-> <<>>]

\* the k-th call of flow f logs a text no other call logs
FlowFormat(f, k) == <<f, Digit(k)>>

\* the writes a call makes on the sink, in order
FlowWrites(op, f, k) ==
    IF op = "Info"
    THEN Info(logger[1], FlowFormat(f, k), <<>>).out
    ELSE Log(rsLog[1], -1, FlowFormat(f, k), <<>>).out

Concurrent_Init ==
    /\ \E logLevel \in FlowMinimums :
         /\ logger = NewLogger(<<"k">>, logLevel).logger
         /\ request = Ptr(FlowRequest)
         /\ rsLog = Ptr(Request(logger[1], FlowRequest).rsLog)
    /\ sink = <<>>
    /\ last = Blank
    /\ calls = 0
    /\ tally = [passing |-> 0, other |-> 0]
    /\ web = Nil
    /\ flows = [pc     |-> [f \in FlowIds |-> "ready"],
                k      |-> [f \in FlowIds |-> 0],
                made   |-> [f \in FlowIds |-> <<>>],
                issued |-> [f \in FlowIds |-> <<>>],
                todo   |-> [f \in FlowIds |-> <<>>],
                order  |-> <<>>]

\* flow f enters a logging call: everything up to its first Write
FlowCall(f) ==
    /\ flows.pc[f] = "ready"
    /\ flows.k[f] < MaxFlowCalls
    /\ \E op \in FlowOps :
         LET w == FlowWrites(op, f, flows.k[f] + 1)
         IN flows' = [flows EXCEPT !.k[f] = @ + 1,
                                   !.made[f] = Append(@, op),
                                   !.issued[f] = @ \o w,
                                   !.todo[f] = w,
                                   !.pc[f] = IF w = <<>> THEN "ready" ELSE "sending"]
    /\ UNCHANGED <<logger, sink, request, rsLog, last, calls, tally, web>>

\* flow f's next fmt.Fprintln(l.writer, s): one Write on the sink
FlowSend(f) ==
    /\ flows.pc[f] = "sending"
    /\ sink' = Append(sink, Head(flows.todo[f]))
    /\ flows' = [flows EXCEPT !.todo[f] = Tail(@),
                              !.order = Append(@, f),
                              !.pc[f] = IF Tail(flows.todo[f]) = <<>>
                                        THEN "ready" ELSE "sending"]
    /\ UNCHANGED <<logger, request, rsLog, last, calls, tally, web>>

Concurrent_Next ==
    \E f \in FlowIds : FlowCall(f) \/ FlowSend(f)

Concurrent_Spec == Concurrent_Init /\ [][Concurrent_Next]_vars

\* the writes the sink received from flow f, in the order it received them
RECURSIVE SinkOf(_, _)
SinkOf(f, n) ==
    IF n = 0 THEN <<>>
    ELSE SinkOf(f, n - 1) \o (IF flows.order[n] = f THEN <<sink[n]>> ELSE <<>>)

\* the invocations of Logger.log that pass the filter in one call
PassingInvocations(op) ==
    IF op = "Info" THEN (IF INFO >= Minimum THEN 1 ELSE 0)
    ELSE (IF ERROR >= Minimum THEN 2 ELSE 0)

RECURSIVE PassingTotal(_)
PassingTotal(ops) ==
    IF ops = <<>> THEN 0 ELSE PassingInvocations(Head(ops)) + PassingTotal(Tail(ops))

\* the texts flow f's calls were given, in the order it made them, each as
\* often as its call passes the filter (the diagnostic of a Log call comes
\* before the call's own record)
RECURSIVE ExpectedMessages(_, _, _)
ExpectedMessages(f, ops, k) ==
    IF k > Len(ops) THEN <<>>
    ELSE (IF PassingInvocations(ops[k]) = 0 THEN <<>>
          ELSE IF ops[k] = "Info" THEN <<FlowFormat(f, k)>>
          ELSE <<Sprintf(InvalidLevelFormat, <<IntArg(-1)>>), FlowFormat(f, k)>>)
         \o ExpectedMessages(f, ops, k + 1)

(* C17: with several flows calling one Logger over a sink whose Write is   *)
(* atomic, every write the sink receives is one complete line and its      *)
(* newline; each invocation of log that passes the filter makes exactly    *)
(* one write, none is lost, repeated or merged; the writes of one flow     *)
(* reach the sink in the order the flow made its calls.  Only the          *)
(* interleaving of different flows is free.                                *)
C17_OneAtomicWritePerPassingCall ==
    /\ Len(flows.order) = Len(sink)
    /\ \A i \in 1..Len(sink) : sink[i].nl = "\n" /\ UnmarshalOK(sink[i].line)
    /\ \A f \in FlowIds :
         LET got == SinkOf(f, Len(sink))
             all == got \o flows.todo[f]
         IN /\ all = flows.issued[f]
            /\ Len(all) = PassingTotal(flows.made[f])
            /\ [i \in 1..Len(all) |-> Unmarshal(all[i].line).Message]
                 = ExpectedMessages(f, flows.made[f], 1)

\* both flows are done, each wrote something, and the sink holds a write of
\* g between two writes of f
C17_Witness ==
    /\ \A f \in FlowIds : flows.k[f] = MaxFlowCalls /\ flows.pc[f] = "ready"
    /\ \E i, j, n \in 1..Len(sink) :
         /\ i < j /\ j < n
         /\ flows.order[i] = "f" /\ flows.order[j] = "g" /\ flows.order[n] = "f"

====
